---- MODULE Spec2Model ----
\* PATHFINDER pipeline orchestration: the graph executor's stage walk with its
\* veto/retry loop, the HTTP and WebSocket transports of app/api/routes.py, the
\* log-queue event sink of app/core/ws_log_handler.py, and the asyncio.gather
\* fan-out used by the access analyst and the critic.
EXTENDS Integers, Sequences, FiniteSets, TLC

\* ---------------------------------------------------------------- bounds
MaxRetries == 1
MaxVenues == 2
MaxEvents == 3
MaxTasks == 3
\* the concurrency_limit a fan-out is to respect
ConcurrencyLimit == 2
MaxReviewInput == 4
MaxMembers == 2
MaxCallers == 2
MaxCalls == 3

\* ------------------------------------------------------ program constants
\* critic.py: top_candidates = candidates[:3]
TopN == 3

None == "None"
\* a key that a dict does not hold
NoKey == "NoKey"
EmptyMap == [k \in {} |-> None]

Min(a, b) == IF a <= b THEN a ELSE b
SetMax(S) == CHOOSE x \in S : \A y \in S : y <= x

\* ------------------------------------------------------------ plan state
VARIABLES
    parsed_intent,
    candidate_venues,
    vibe_scores,
    accessibility_scores,
    cost_profiles,
    risk_flags,
    veto,
    veto_reason,
    ranked_results,
    retry_count

\* ------------------------------------------------------- graph executor
VARIABLES
    stage,
    scorer_status,
    exec_outcome,
    invoked,
    discovery_entries,
    response

\* ------------------------------------- live feed (websocket_plan, run_graph)
VARIABLES
    ws_pc,
    connected,
    attached,
    log_queue,
    entry,
    done_event,
    graph_task,
    graph_result,
    graph_error,
    sent,
    emitted,
    logged,
    other_run_records,
    last_record,
    logger_handlers

\* ------------------------------ fan-out batch (asyncio.run of a gather)
VARIABLES
    fan_node,
    loop_running,
    behaviour,
    task_state,
    attempts,
    fan_pc,
    run_no,
    gather_exc,
    results

\* ------------------- one stage function called on a state (node(state))
VARIABLES
    node_name,
    node_state,
    node_env,
    node_pc,
    node_result,
    external_calls

\* ------------- SnowflakeIntelligence.log_risk_event and its concurrent callers
VARIABLES
    risk_events,
    caller_pc,
    caller_args,
    calls_made

planVars == <<parsed_intent, candidate_venues, vibe_scores, accessibility_scores,
              cost_profiles, risk_flags, veto, veto_reason, ranked_results,
              retry_count>>
execVars == <<stage, scorer_status, exec_outcome, invoked, discovery_entries,
              response>>
streamVars == <<ws_pc, connected, attached, log_queue, entry, done_event, graph_task,
                graph_result, graph_error, sent, emitted, logged, other_run_records,
                last_record, logger_handlers>>
fanVars == <<fan_node, loop_running, behaviour, task_state, attempts, fan_pc, run_no,
             gather_exc, results>>
nodeVars == <<node_name, node_state, node_env, node_pc, node_result, external_calls>>
riskVars == <<risk_events, caller_pc, caller_args, calls_made>>
vars == <<planVars, execVars, streamVars, fanVars, nodeVars, riskVars>>

Scorers == {"vibe_matcher", "access_analyst", "cost_analyst"}

\* Venue records as the scout hands them on (lat/lng/category play no part in
\* the orchestration).
Venues ==
    { [venue_id |-> "v1", name |-> "Venue A"],
      [venue_id |-> "v2", name |-> "Venue B"] }

\* Three candidates with ids of their own: the two records above and a third.
ThreeCandidates ==
    << [venue_id |-> "v1", name |-> "Venue A"],
       [venue_id |-> "v2", name |-> "Venue B"],
       [venue_id |-> "gp_test001", name |-> "The Cozy Bean Cafe"] >>

CandidateLists == UNION { [1..n -> Venues] : n \in 0..MaxVenues }

\* venue.get("venue_id", venue.get("name", "unknown"))
VenueKey(v) ==
    IF v.venue_id # NoKey THEN v.venue_id
    ELSE IF v.name # NoKey THEN v.name ELSE "unknown"

\* top_candidates[0].get("venue_id", top_candidates[0].get("name"))
TopKey(v) ==
    IF v.venue_id # NoKey THEN v.venue_id
    ELSE IF v.name # NoKey THEN v.name ELSE None

CandidateKeys(cands) == { VenueKey(cands[i]) : i \in 1..Len(cands) }

\* ------------------------------------------------------------- critic.py
\* What generate_content gives for one venue: it raises ("exception"), it
\* returns None ("none": resp.startswith raises inside the try), text that is no
\* JSON ("not_json": json.loads raises inside the try), text that parses to the
\* expected object (with or without fast_fail), or text that parses to JSON
\* that is no object, a list, a string or null ("json_list").
GeneratorOutputs == {"exception", "none", "not_json", "clean", "fast_fail", "json_list"}

\* One generator output for each analysis _analyze_venue can return ("none"
\* and "not_json" end in the except clause as "exception" does).
DistinctAnalyses == {"exception", "clean", "fast_fail", "json_list"}

DefaultAnalysis ==
    [is_dict |-> TRUE, risks |-> <<>>, fast_fail |-> FALSE, fast_fail_reason |-> None]

\* _analyze_venue: (venue_id, analysis)
AnalyzeVenue(venue, gen) ==
    << VenueKey(venue),
       CASE gen \in {"exception", "none", "not_json"} -> DefaultAnalysis
         [] gen = "clean" ->
               [is_dict |-> TRUE, risks |-> <<"low">>, fast_fail |-> FALSE,
                fast_fail_reason |-> None]
         [] gen = "fast_fail" ->
               [is_dict |-> TRUE, risks |-> <<"high">>, fast_fail |-> TRUE,
                fast_fail_reason |-> "dealbreaker"]
         [] OTHER ->
               [is_dict |-> FALSE, risks |-> <<>>, fast_fail |-> FALSE,
                fast_fail_reason |-> None] >>

TopCandidatesAll(cands) == cands

\* top_candidates = candidates[:3]
TopCandidates(cands) == SubSeq(cands, 1, Min(TopN, Len(cands)))

\* analysis.get(...) on a value that is no dict raises AttributeError out of
\* critic_node (the loop at the end of the node is outside every try block).
CriticRaises(cands, gens) ==
    \E i \in 1..Len(TopCandidates(cands)) : gens[i] = "json_list"

\* critic_node's return value when it does not raise.
CriticUpdate(cands, gens) ==
    IF cands = <<>>
    THEN [risk_flags |-> EmptyMap, veto |-> FALSE, veto_reason |-> None]
    ELSE
      LET top == TopCandidates(cands)
          analysed == [i \in 1..Len(top) |-> AnalyzeVenue(top[i], gens[i])]
          hits == { i \in 1..Len(top) :
                      analysed[i][2].fast_fail /\ analysed[i][1] = TopKey(top[1]) }
          overall == hits # {}
          reason == IF hits = {} THEN None
                    ELSE analysed[SetMax(hits)][2].fast_fail_reason
          flags == [k \in { analysed[i][1] : i \in 1..Len(top) } |->
                      analysed[SetMax({ i \in 1..Len(top) : analysed[i][1] = k })][2].risks]
      IN [risk_flags |-> flags, fast_fail |-> overall, fast_fail_reason |-> reason,
          veto |-> overall, veto_reason |-> reason]

\* --------------------------------------------------------------- mapbox.py
\* What one lookup meets: no access token configured; the request answered
\* with an error status (raise_for_status); a transport error (timeout,
\* connection); a 2xx body that is no JSON; a JSON body that is a list; a JSON
\* object without "type"; an object of another type; a FeatureCollection
\* without features; a FeatureCollection with features.
LookupOutcomes ==
    {"no_token", "http_status_error", "transport_error", "not_json", "json_list",
     "no_type", "other_type", "empty_collection", "feature_collection"}

\* get_isochrone: whether it raises, what it returns, and the requests sent.
\* resp.json() on a body that is no JSON raises a ValueError and data.get on a
\* list an AttributeError; neither is an httpx.HTTPError.
GetIsochrone(outcome) ==
    CASE outcome = "no_token" -> [raises |-> FALSE, value |-> None, calls |-> 0]
      [] outcome \in {"http_status_error", "transport_error"} ->
            [raises |-> FALSE, value |-> None, calls |-> 1]
      [] outcome \in {"not_json", "json_list"} ->
            [raises |-> TRUE, value |-> None, calls |-> 1]
      [] outcome = "feature_collection" ->
            [raises |-> FALSE, value |-> "FeatureCollection", calls |-> 1]
      [] outcome = "empty_collection" ->
            [raises |-> FALSE, value |-> "FeatureCollection without features",
             calls |-> 1]
      [] outcome = "other_type" ->
            [raises |-> FALSE, value |-> "GeoJSON of another type", calls |-> 1]
      [] OTHER -> [raises |-> FALSE, value |-> None, calls |-> 1]

\* ------------------------------------------------------ access_analyst.py
\* How the node's batch ended: every per-venue task returned ("gathered"), the
\* batch failed with an exception the node swallows ("swallowed": results = []),
\* or an exception left the node ("raised").
AccessBatchOutcomes == {"gathered", "swallowed", "raised"}

AccessUpdateNullOnFailure(cands, outcome) ==
    IF cands = <<>>
    THEN EmptyMap
    ELSE [k \in CandidateKeys(cands) |-> IF outcome = "swallowed" THEN None ELSE "score"]

AccessUpdate(cands, outcome) ==
    IF cands = <<>> \/ outcome = "swallowed"
    THEN EmptyMap
    ELSE [k \in CandidateKeys(cands) |-> "score"]

\* --------------------------------------------------------- cost_analyst.py
\* cost_analyst_node returns the state it was given: cost_profiles comes back
\* as it went in.
CostUpdate(profiles) == profiles

\* ---------------------------------------------------------------- routes.py
\* create_plan: the initial state handed to the graph.
InitPlanState ==
    /\ parsed_intent \in {"empty", "explicit"}
    /\ candidate_venues = <<>>
    /\ vibe_scores = EmptyMap
    /\ accessibility_scores = EmptyMap
    /\ cost_profiles = EmptyMap
    /\ risk_flags = EmptyMap
    /\ veto = FALSE
    /\ veto_reason = None
    /\ ranked_results = <<>>
    /\ retry_count = 0

LogMessage(e) == [type |-> "log", node |-> e.node, message |-> e.message]

ErrorMessage(exc) == [type |-> "error", message |-> exc]

\* {"type": "result", "data": PlanResponse(...).model_dump()}
ResultMessage(ranked) ==
    [type |-> "result",
     data |-> [venues |-> ranked, execution_summary |-> "Pipeline complete.",
               global_consensus |-> None, user_profile |-> None,
               agent_weights |-> None, action_request |-> None]]

\* PlanResponse(venues=result.get("ranked_results", []),
\*              execution_summary="Pipeline complete.")
PlanResponse(ranked) ==
    [venues |-> ranked, execution_summary |-> "Pipeline complete."]

NoResponse == [transport |-> "none", body |-> [type |-> "none"]]

InitExec ==
    /\ stage = "INTENT"
    /\ scorer_status = [s \in Scorers |-> "idle"]
    /\ exec_outcome = "running"
    /\ invoked = {}
    /\ discovery_entries = 0
    /\ response = NoResponse

\* ------------------------------------------------- graph executor (walk)
Intent ==
    /\ UNCHANGED <<streamVars, fanVars, nodeVars, riskVars>>
    /\ stage = "INTENT"
    /\ parsed_intent' = "parsed"
    /\ stage' = "DISCOVERY"
    /\ invoked' = invoked \cup {"INTENT"}
    /\ UNCHANGED <<candidate_venues, vibe_scores, accessibility_scores, cost_profiles,
                   risk_flags, veto, veto_reason, ranked_results, retry_count,
                   scorer_status, exec_outcome, discovery_entries, response>>

DiscoveryNoShortCircuit ==
    /\ UNCHANGED <<streamVars, fanVars, nodeVars, riskVars>>
    /\ stage = "DISCOVERY"
    /\ discovery_entries < MaxRetries + 3
    /\ \E found \in CandidateLists :
          /\ candidate_venues' = found
          /\ stage' = "PARALLEL_SCORING"
          /\ exec_outcome' = exec_outcome
          /\ ranked_results' = ranked_results
    /\ discovery_entries' = discovery_entries + 1
    /\ invoked' = invoked \cup {"DISCOVERY"}
    /\ UNCHANGED <<parsed_intent, vibe_scores, accessibility_scores, cost_profiles,
                   risk_flags, veto, veto_reason, retry_count, scorer_status, response>>

\* The discovery stage, and the zero-candidates short-circuit after it.
Discovery ==
    /\ UNCHANGED <<streamVars, fanVars, nodeVars, riskVars>>
    /\ stage = "DISCOVERY"
    /\ discovery_entries < MaxRetries + 3
    /\ \E found \in CandidateLists :
          /\ candidate_venues' = found
          /\ IF found = <<>>
             THEN /\ stage' = "DONE"
                  /\ exec_outcome' = "returned"
                  /\ ranked_results' = <<>>
             ELSE /\ stage' = "PARALLEL_SCORING"
                  /\ exec_outcome' = exec_outcome
                  /\ ranked_results' = ranked_results
    /\ discovery_entries' = discovery_entries + 1
    /\ invoked' = invoked \cup {"DISCOVERY"}
    /\ UNCHANGED <<parsed_intent, vibe_scores, accessibility_scores, cost_profiles,
                   risk_flags, veto, veto_reason, retry_count, scorer_status, response>>

StartScorer(s) ==
    /\ UNCHANGED <<streamVars, fanVars, nodeVars, riskVars>>
    /\ stage = "PARALLEL_SCORING"
    /\ scorer_status[s] = "idle"
    /\ scorer_status' = [scorer_status EXCEPT ![s] = "running"]
    /\ invoked' = invoked \cup {s}
    /\ UNCHANGED <<planVars, stage, exec_outcome, discovery_entries, response>>

FinishVibe ==
    /\ UNCHANGED <<streamVars, fanVars, nodeVars, riskVars>>
    /\ stage = "PARALLEL_SCORING"
    /\ scorer_status["vibe_matcher"] = "running"
    /\ \E scored \in SUBSET CandidateKeys(candidate_venues) :
          vibe_scores' = [k \in scored |-> "score"]
    /\ scorer_status' = [scorer_status EXCEPT !["vibe_matcher"] = "settled"]
    /\ UNCHANGED <<parsed_intent, candidate_venues, accessibility_scores, cost_profiles,
                   risk_flags, veto, veto_reason, ranked_results, retry_count,
                   stage, exec_outcome, invoked, discovery_entries, response>>

FinishAccess ==
    /\ UNCHANGED <<streamVars, fanVars, nodeVars, riskVars>>
    /\ stage = "PARALLEL_SCORING"
    /\ scorer_status["access_analyst"] = "running"
    /\ \E outcome \in AccessBatchOutcomes :
          IF outcome = "raised"
          THEN /\ stage' = "DONE"
               /\ exec_outcome' = "raised"
               /\ UNCHANGED <<accessibility_scores, scorer_status>>
          ELSE /\ accessibility_scores' = AccessUpdate(candidate_venues, outcome)
               /\ scorer_status' = [scorer_status EXCEPT !["access_analyst"] = "settled"]
               /\ UNCHANGED <<stage, exec_outcome>>
    /\ UNCHANGED <<parsed_intent, candidate_venues, vibe_scores, cost_profiles,
                   risk_flags, veto, veto_reason, ranked_results, retry_count,
                   invoked, discovery_entries, response>>

FinishCost ==
    /\ UNCHANGED <<streamVars, fanVars, nodeVars, riskVars>>
    /\ stage = "PARALLEL_SCORING"
    /\ scorer_status["cost_analyst"] = "running"
    /\ cost_profiles' = CostUpdate(cost_profiles)
    /\ scorer_status' = [scorer_status EXCEPT !["cost_analyst"] = "settled"]
    /\ UNCHANGED <<parsed_intent, candidate_venues, vibe_scores, accessibility_scores,
                   risk_flags, veto, veto_reason, ranked_results, retry_count,
                   stage, exec_outcome, invoked, discovery_entries, response>>

FanInAnySettled ==
    /\ UNCHANGED <<streamVars, fanVars, nodeVars, riskVars>>
    /\ stage = "PARALLEL_SCORING"
    /\ \E s \in Scorers : scorer_status[s] = "settled"
    /\ stage' = "REVIEW"
    /\ UNCHANGED <<planVars, scorer_status, exec_outcome, invoked, discovery_entries,
                   response>>

\* The fan-in barrier: REVIEW is entered once every scorer has settled.
FanIn ==
    /\ UNCHANGED <<streamVars, fanVars, nodeVars, riskVars>>
    /\ stage = "PARALLEL_SCORING"
    /\ \A s \in Scorers : scorer_status[s] = "settled"
    /\ stage' = "REVIEW"
    /\ UNCHANGED <<planVars, scorer_status, exec_outcome, invoked, discovery_entries,
                   response>>

\* The conditional edge after REVIEW.
RouteAfterReview(v, rc) ==
    IF v /\ rc < MaxRetries THEN "RETRY" ELSE "SYNTHESIS"

\* The critic runs; the executor merges its update and takes the conditional edge.
Review ==
    /\ UNCHANGED <<streamVars, fanVars, nodeVars, riskVars>>
    /\ stage = "REVIEW"
    /\ invoked' = invoked \cup {"REVIEW"}
    /\ \E gens \in [1..Len(TopCandidates(candidate_venues)) -> DistinctAnalyses] :
          IF CriticRaises(candidate_venues, gens)
          THEN /\ stage' = "DONE"
               /\ exec_outcome' = "raised"
               /\ UNCHANGED <<risk_flags, veto, veto_reason>>
          ELSE LET upd == CriticUpdate(candidate_venues, gens) IN
               /\ risk_flags' = upd.risk_flags
               /\ veto' = upd.veto
               /\ veto_reason' = upd.veto_reason
               /\ stage' = RouteAfterReview(upd.veto, retry_count)
               /\ exec_outcome' = exec_outcome
    /\ UNCHANGED <<parsed_intent, candidate_venues, vibe_scores, accessibility_scores,
                   cost_profiles, ranked_results, retry_count, scorer_status,
                   discovery_entries, response>>

RetryKeepScores ==
    /\ UNCHANGED <<streamVars, fanVars, nodeVars, riskVars>>
    /\ stage = "RETRY"
    /\ retry_count' = retry_count + 1
    /\ candidate_venues' = <<>>
    /\ scorer_status' = [s \in Scorers |-> "idle"]
    /\ invoked' = {}
    /\ stage' = "DISCOVERY"
    /\ UNCHANGED <<parsed_intent, vibe_scores, accessibility_scores, cost_profiles,
                   risk_flags, veto, veto_reason, ranked_results, exec_outcome,
                   discovery_entries, response>>

RetryNoCount ==
    /\ UNCHANGED <<streamVars, fanVars, nodeVars, riskVars>>
    /\ stage = "RETRY"
    /\ retry_count' = retry_count
    /\ candidate_venues' = <<>>
    /\ vibe_scores' = EmptyMap
    /\ accessibility_scores' = EmptyMap
    /\ cost_profiles' = EmptyMap
    /\ scorer_status' = [s \in Scorers |-> "idle"]
    /\ invoked' = {}
    /\ stage' = "DISCOVERY"
    /\ UNCHANGED <<parsed_intent, risk_flags, veto, veto_reason, ranked_results,
                   exec_outcome, discovery_entries, response>>

\* The retry traversal: count it, reset the pass, re-enter DISCOVERY.
Retry ==
    /\ UNCHANGED <<streamVars, fanVars, nodeVars, riskVars>>
    /\ stage = "RETRY"
    /\ retry_count' = retry_count + 1
    /\ candidate_venues' = <<>>
    /\ vibe_scores' = EmptyMap
    /\ accessibility_scores' = EmptyMap
    /\ cost_profiles' = EmptyMap
    /\ scorer_status' = [s \in Scorers |-> "idle"]
    /\ invoked' = {}
    /\ stage' = "DISCOVERY"
    /\ UNCHANGED <<parsed_intent, risk_flags, veto, veto_reason, ranked_results,
                   exec_outcome, discovery_entries, response>>

ContributionZero(mapping, k) ==
    IF k \in DOMAIN mapping THEN mapping[k] ELSE "zero"

\* What one scorer's mapping adds to a venue's ranking: the venue's record, or
\* the scorer's neutral value for a venue the mapping does not hold.
Contribution(mapping, k) ==
    IF k \in DOMAIN mapping THEN mapping[k] ELSE "neutral"

\* The synthesiser's entry for the i-th candidate.
RankedEntry(i) ==
    LET k == VenueKey(candidate_venues[i])
    IN [venue_id |-> k, rank |-> i,
        contributions |->
           [vibe_matcher |-> Contribution(vibe_scores, k),
            access_analyst |-> Contribution(accessibility_scores, k),
            cost_analyst |-> Contribution(cost_profiles, k)]]

\* The synthesiser ranks every candidate of the pass.
Synthesis ==
    /\ UNCHANGED <<streamVars, fanVars, nodeVars, riskVars>>
    /\ stage = "SYNTHESIS"
    /\ ranked_results' = [i \in 1..Len(candidate_venues) |-> RankedEntry(i)]
    /\ stage' = "DONE"
    /\ exec_outcome' = "returned"
    /\ invoked' = invoked \cup {"SYNTHESIS"}
    /\ UNCHANGED <<parsed_intent, candidate_venues, vibe_scores, accessibility_scores,
                   cost_profiles, risk_flags, veto, veto_reason, retry_count,
                   scorer_status, discovery_entries, response>>

\* What the client gets once ainvoke is over. create_plan returns a PlanResponse
\* (an exception leaves the handler); websocket_plan sends the result message,
\* or the error message when run_graph caught an exception.
Respond(transport) ==
    /\ UNCHANGED <<streamVars, fanVars, nodeVars, riskVars>>
    /\ stage = "DONE"
    /\ response.transport = "none"
    /\ response' =
          [transport |-> transport,
           body |-> IF exec_outcome = "returned"
                    THEN IF transport = "http" THEN PlanResponse(ranked_results)
                         ELSE ResultMessage(ranked_results)
                    ELSE IF transport = "http" THEN [type |-> "exception"]
                         ELSE ErrorMessage("exc")]
    /\ UNCHANGED <<planVars, stage, scorer_status, exec_outcome, invoked,
                   discovery_entries>>

\* A discovery pass that finds the three candidates.
DiscoverThree ==
    /\ UNCHANGED <<streamVars, fanVars, nodeVars, riskVars>>
    /\ stage = "DISCOVERY"
    /\ discovery_entries < MaxRetries + 3
    /\ candidate_venues' = ThreeCandidates
    /\ stage' = "PARALLEL_SCORING"
    /\ discovery_entries' = discovery_entries + 1
    /\ invoked' = invoked \cup {"DISCOVERY"}
    /\ UNCHANGED <<parsed_intent, vibe_scores, accessibility_scores, cost_profiles,
                   risk_flags, veto, veto_reason, ranked_results, retry_count,
                   scorer_status, exec_outcome, response>>

\* A run whose discovery passes find the three candidates.
ThreeCandidatesNext ==
    \/ Intent
    \/ DiscoverThree
    \/ \E s \in Scorers : StartScorer(s)
    \/ FinishVibe
    \/ FinishAccess
    \/ FinishCost
    \/ FanIn
    \/ Review
    \/ Retry
    \/ Synthesis
    \/ \E transport \in {"http", "ws"} : Respond(transport)

ExecNext ==
    \/ Intent
    \/ Discovery
    \/ \E s \in Scorers : StartScorer(s)
    \/ FinishVibe
    \/ FinishAccess
    \/ FinishCost
    \/ FanIn
    \/ Review
    \/ Retry
    \/ Synthesis
    \/ \E transport \in {"http", "ws"} : Respond(transport)

\* ------------------------------------------------------ ws_log_handler.py
\* target_logger_names of websocket_plan, and one logger that is not among them.
TargetLoggers ==
    {"app.agents.commander", "app.agents.scout", "app.agents.vibe_matcher",
     "app.agents.cost_analyst", "app.agents.critic", "app.agents.synthesiser",
     "app.graph"}

Loggers == {"app.agents.critic", "app.agents.access_analyst"}

NoTag == "NoTag"

\* Formatted log lines: a [PREFIX] tag or none, and the text after it.
\* (a tag the map knows, a tag it does not know, no tag, an empty message, a
\* separator line, and a record whose arguments do not fit its format string)
LogLines ==
    { [tag |-> "CRITIC", body |-> "text"],
      [tag |-> "ACCESS", body |-> "text"],
      [tag |-> NoTag, body |-> "text"],
      [tag |-> NoTag, body |-> ""],
      [tag |-> NoTag, body |-> "separator"],
      [tag |-> NoTag, body |-> "bad_args"] }

\* _PREFIX_MAP
PrefixTable ==
    [COMMANDER |-> "commander", SCOUT |-> "scout", VIBE |-> "vibe_matcher",
     COST |-> "cost_analyst", CRITIC |-> "critic", SYNTH |-> "synthesiser",
     GRAPH |-> "graph"]

\* str.lower() on the upper-case tags that occur
Lower(tag) ==
    CASE tag = "ACCESS" -> "access"
      [] tag = "MAPBOX" -> "mapbox"
      [] OTHER -> tag

PrefixMapIdentity(tag) == tag

\* _PREFIX_MAP.get(tag, tag.lower())
PrefixMap(tag) ==
    IF tag \in DOMAIN PrefixTable THEN PrefixTable[tag] ELSE Lower(tag)

\* self.format(record) raises when the record's arguments do not fit its
\* format string.
FormatRaises(line) == line.body = "bad_args"

\* The classes `except Exception` catches, among them what format raises.
CaughtByEmit == {"TypeError", "ValueError", "KeyError"}

\* emit raises to the logging caller only what its except clause lets through
\* (handleError reports on stderr and does not raise).
EmitRaises(line) == FormatRaises(line) /\ "TypeError" \notin CaughtByEmit

\* `not msg or _SEPARATOR_RE.match(msg.strip())`
Skipped(line) ==
    \/ FormatRaises(line)
    \/ line.tag = NoTag /\ line.body \in {"", "separator"}

HandlerEmitBounded(q, line, seq) ==
    IF Skipped(line) \/ Len(q) >= 1 THEN q
    ELSE Append(q, [node |-> IF line.tag # NoTag THEN PrefixMap(line.tag) ELSE "system",
                    message |-> <<line.tag, line.body, seq>>])

\* WebSocketLogHandler.emit: the queue after the record `line` (the seq-th record
\* logged in this session) has been handled.
HandlerEmit(q, line, seq) ==
    IF Skipped(line) THEN q
    ELSE Append(q, [node |-> IF line.tag # NoTag THEN PrefixMap(line.tag) ELSE "system",
                    message |-> <<line.tag, line.body, seq>>])

\* ------------------------------------------------------------- routes.py
NoEntry == [node |-> None, message |-> <<>>]

\* What ainvoke can return to run_graph: the terminal plan state.
TerminalStates ==
    { [ranked_results |-> <<>>, veto |-> FALSE, veto_reason |-> None],
      [ranked_results |-> <<[venue_id |-> "v1", rank |-> 1]>>, veto |-> FALSE,
       veto_reason |-> None],
      [ranked_results |-> <<[venue_id |-> "v1", rank |-> 1]>>, veto |-> TRUE,
       veto_reason |-> "dealbreaker"] }

NoResult == [ranked_results |-> <<>>, veto |-> FALSE, veto_reason |-> None]

\* queue.Queue.get_nowait on a non-empty queue: the entry taken, the queue left.
GetNowaitLifo(q) == [entry |-> q[Len(q)], rest |-> SubSeq(q, 1, Len(q) - 1)]

GetNowait(q) == [entry |-> Head(q), rest |-> Tail(q)]

\* The handler of this session, and the handler of a session that is going on
\* when this one starts.
SessionHandler == "session_handler"
OtherSessionHandler == "other_session_handler"

AllLoggers == TargetLoggers \cup Loggers

\* Logger.handlers of each logger before the session: the other session's
\* handler is on every target logger.
HandlersBefore ==
    [lg \in AllLoggers |-> IF lg \in TargetLoggers THEN {OtherSessionHandler} ELSE {}]

\* for lg in target_loggers: lg.addHandler(handler)
AddHandler(handlers, h) ==
    [lg \in AllLoggers |-> IF lg \in TargetLoggers THEN handlers[lg] \cup {h}
                           ELSE handlers[lg]]

RemoveHandlerFromFirst(handlers, h) ==
    [lg \in AllLoggers |-> IF lg = "app.agents.commander" THEN handlers[lg] \ {h}
                           ELSE handlers[lg]]

\* for lg in target_loggers: lg.removeHandler(handler)
RemoveHandler(handlers, h) ==
    [lg \in AllLoggers |-> IF lg \in TargetLoggers THEN handlers[lg] \ {h}
                           ELSE handlers[lg]]

\* No stage of the session's run has logged yet.
NoRecord ==
    [logger |-> None, line |-> [tag |-> NoTag, body |-> ""], seq |-> 0,
     raised |-> FALSE]

InitStream ==
    /\ ws_pc = "attach"
    /\ connected = TRUE
    /\ attached = FALSE
    /\ log_queue = <<>>
    /\ entry = NoEntry
    /\ done_event = FALSE
    /\ graph_task = "none"
    /\ graph_result = NoResult
    /\ graph_error = None
    /\ sent = <<>>
    /\ emitted = <<>>
    /\ logged = 0
    /\ other_run_records = {}
    /\ last_record = NoRecord
    /\ logger_handlers = HandlersBefore

\* handler = WebSocketLogHandler(log_queue); lg.addHandler(handler) for each target.
WsAttach ==
    /\ UNCHANGED <<planVars, execVars, fanVars, nodeVars, other_run_records, riskVars, last_record>>
    /\ logger_handlers' = AddHandler(logger_handlers, SessionHandler)
    /\ ws_pc = "attach"
    /\ attached' = TRUE
    /\ ws_pc' = "receive"
    /\ UNCHANGED <<connected, log_queue, entry, done_event, graph_task, graph_result,
                   graph_error, sent, emitted, logged>>

\* What receive_json and the data.get(...) calls after it can meet: a JSON
\* object, or a payload that makes them raise (text that is no JSON, a JSON list).
Payloads == {"object", "malformed"}

\* data = await websocket.receive_json(); initial_state = {...};
\* graph_task = asyncio.create_task(run_graph())
WsReceive ==
    /\ UNCHANGED <<planVars, execVars, fanVars, nodeVars, other_run_records, riskVars, last_record, logger_handlers>>
    /\ ws_pc = "receive"
    /\ \E payload \in Payloads :
          IF connected /\ payload = "object"
          THEN /\ graph_task' = "running"
               /\ ws_pc' = "poll"
          ELSE /\ graph_task' = graph_task
               /\ ws_pc' = "finally"
    /\ UNCHANGED <<connected, attached, log_queue, entry, done_event, graph_result,
                   graph_error, sent, emitted, logged>>

\* A logger call made while the graph runs; the handler sees it only through a
\* logger it is attached to.
LogRecord(lg, line) ==
    /\ UNCHANGED <<planVars, execVars, fanVars, nodeVars, other_run_records, riskVars,
                   logger_handlers>>
    /\ last_record' = [logger |-> lg, line |-> line, seq |-> logged + 1,
                        raised |-> SessionHandler \in logger_handlers[lg] /\ EmitRaises(line)]
    /\ graph_task = "running"
    /\ logged < MaxEvents
    /\ logged' = logged + 1
    /\ IF SessionHandler \in logger_handlers[lg]
       THEN /\ log_queue' = HandlerEmit(log_queue, line, logged + 1)
            /\ emitted' = emitted \o HandlerEmit(<<>>, line, logged + 1)
       ELSE UNCHANGED <<log_queue, emitted>>
    /\ UNCHANGED <<ws_pc, connected, attached, entry, done_event, graph_task,
                   graph_result, graph_error, sent>>

RunGraphReturnNoSignal ==
    /\ UNCHANGED <<fanVars, nodeVars, other_run_records, riskVars, last_record, logger_handlers>>
    /\ graph_task = "running"
    /\ \E final \in TerminalStates :
          /\ graph_result' = final
          /\ ranked_results' = final.ranked_results
          /\ veto' = final.veto
          /\ veto_reason' = final.veto_reason
    /\ exec_outcome' = "returned"
    /\ UNCHANGED <<parsed_intent, candidate_venues, vibe_scores, accessibility_scores,
                   cost_profiles, risk_flags, retry_count, stage, scorer_status,
                   invoked, discovery_entries, response>>
    /\ graph_task' = "finished"
    /\ done_event' = done_event
    /\ UNCHANGED <<ws_pc, connected, attached, log_queue, entry, graph_error, sent,
                   emitted, logged>>

\* run_graph: ainvoke returns, `finally: done_event.set()`.
RunGraphReturn ==
    /\ UNCHANGED <<fanVars, nodeVars, other_run_records, riskVars, last_record, logger_handlers>>
    /\ graph_task = "running"
    /\ \E final \in TerminalStates :
          /\ graph_result' = final
          /\ ranked_results' = final.ranked_results
          /\ veto' = final.veto
          /\ veto_reason' = final.veto_reason
    /\ exec_outcome' = "returned"
    /\ UNCHANGED <<parsed_intent, candidate_venues, vibe_scores, accessibility_scores,
                   cost_profiles, risk_flags, retry_count, stage, scorer_status,
                   invoked, discovery_entries, response>>
    /\ graph_task' = "finished"
    /\ done_event' = TRUE
    /\ UNCHANGED <<ws_pc, connected, attached, log_queue, entry, graph_error, sent,
                   emitted, logged>>

RunGraphRaiseUnrecorded ==
    /\ UNCHANGED <<planVars, fanVars, nodeVars, other_run_records, riskVars, last_record, logger_handlers>>
    /\ graph_task = "running"
    /\ exec_outcome' = "raised"
    /\ UNCHANGED <<stage, scorer_status, invoked, discovery_entries, response>>
    /\ graph_error' = graph_error
    /\ graph_task' = "finished"
    /\ done_event' = TRUE
    /\ UNCHANGED <<ws_pc, connected, attached, log_queue, entry, graph_result, sent,
                   emitted, logged>>

\* run_graph: ainvoke raises, `except Exception`, `finally: done_event.set()`.
RunGraphRaise ==
    /\ UNCHANGED <<planVars, fanVars, nodeVars, other_run_records, riskVars, last_record, logger_handlers>>
    /\ graph_task = "running"
    /\ exec_outcome' = "raised"
    /\ UNCHANGED <<stage, scorer_status, invoked, discovery_entries, response>>
    /\ graph_error' = "exc"
    /\ graph_task' = "finished"
    /\ done_event' = TRUE
    /\ UNCHANGED <<ws_pc, connected, attached, log_queue, entry, graph_result, sent,
                   emitted, logged>>

\* One turn of `while not done_event.is_set() or not log_queue.empty()` up to
\* its first await.
WsPoll ==
    /\ UNCHANGED <<planVars, execVars, fanVars, nodeVars, other_run_records, riskVars, last_record, logger_handlers>>
    /\ ws_pc = "poll"
    /\ IF ~done_event \/ log_queue # <<>>
       THEN IF log_queue # <<>>
            THEN /\ entry' = GetNowait(log_queue).entry
                 /\ log_queue' = GetNowait(log_queue).rest
                 /\ ws_pc' = "send_log"
            ELSE /\ ws_pc' = IF done_event THEN "await_task" ELSE "sleep"
                 /\ UNCHANGED <<entry, log_queue>>
       ELSE /\ ws_pc' = "await_task"
            /\ UNCHANGED <<entry, log_queue>>
    /\ UNCHANGED <<connected, attached, done_event, graph_task, graph_result,
                   graph_error, sent, emitted, logged>>

\* await websocket.send_json({"type": "log", ...}) in either drain loop.
WsSendLog ==
    /\ UNCHANGED <<planVars, execVars, fanVars, nodeVars, other_run_records, riskVars, last_record, logger_handlers>>
    /\ ws_pc \in {"send_log", "send_flush"}
    /\ IF connected
       THEN /\ sent' = Append(sent, LogMessage(entry))
            /\ ws_pc' = IF ws_pc = "send_log" THEN "poll" ELSE "flush"
       ELSE /\ sent' = sent
            /\ ws_pc' = "finally"
    /\ entry' = NoEntry
    /\ UNCHANGED <<connected, attached, log_queue, done_event, graph_task,
                   graph_result, graph_error, emitted, logged>>

\* await asyncio.sleep(0.05)
WsWake ==
    /\ UNCHANGED <<planVars, execVars, fanVars, nodeVars, other_run_records, riskVars, last_record, logger_handlers>>
    /\ ws_pc = "sleep"
    /\ ws_pc' = "poll"
    /\ UNCHANGED <<connected, attached, log_queue, entry, done_event, graph_task,
                   graph_result, graph_error, sent, emitted, logged>>

\* await graph_task
WsAwaitTask ==
    /\ UNCHANGED <<planVars, execVars, fanVars, nodeVars, other_run_records, riskVars, last_record, logger_handlers>>
    /\ ws_pc = "await_task"
    /\ graph_task = "finished"
    /\ ws_pc' = "flush"
    /\ UNCHANGED <<connected, attached, log_queue, entry, done_event, graph_task,
                   graph_result, graph_error, sent, emitted, logged>>

\* One turn of the final `while not log_queue.empty()` up to its await.
WsFlush ==
    /\ UNCHANGED <<planVars, execVars, fanVars, nodeVars, other_run_records, riskVars, last_record, logger_handlers>>
    /\ ws_pc = "flush"
    /\ IF log_queue # <<>>
       THEN /\ entry' = GetNowait(log_queue).entry
            /\ log_queue' = GetNowait(log_queue).rest
            /\ ws_pc' = "send_flush"
       ELSE /\ ws_pc' = "terminal"
            /\ UNCHANGED <<entry, log_queue>>
    /\ UNCHANGED <<connected, attached, done_event, graph_task, graph_result,
                   graph_error, sent, emitted, logged>>

\* The messages the `if graph_error: ... else: ...` at the end sends.
TerminalBoth(err, res) ==
    IF err # None
    THEN <<ErrorMessage(err), ResultMessage(res.ranked_results)>>
    ELSE <<ResultMessage(res.ranked_results)>>

TerminalMessages(err, res) ==
    IF err # None
    THEN <<ErrorMessage(err)>>
    ELSE <<ResultMessage(res.ranked_results)>>

WsTerminal ==
    /\ UNCHANGED <<planVars, execVars, fanVars, nodeVars, other_run_records, riskVars, last_record, logger_handlers>>
    /\ ws_pc = "terminal"
    /\ sent' = IF connected THEN sent \o TerminalMessages(graph_error, graph_result)
               ELSE sent
    /\ ws_pc' = "finally"
    /\ UNCHANGED <<connected, attached, log_queue, entry, done_event, graph_task,
                   graph_result, graph_error, emitted, logged>>

WsFinallyCancelsTask ==
    /\ UNCHANGED <<planVars, execVars, fanVars, nodeVars, other_run_records, riskVars, last_record>>
    /\ logger_handlers' = RemoveHandler(logger_handlers, SessionHandler)
    /\ ws_pc = "finally"
    /\ attached' = FALSE
    /\ ws_pc' = "closed"
    /\ graph_task' = IF graph_task = "running" THEN "cancelled" ELSE graph_task
    /\ UNCHANGED <<connected, log_queue, entry, done_event, graph_result,
                   graph_error, sent, emitted, logged>>

\* finally: lg.removeHandler(handler) for each target; await websocket.close()
WsFinally ==
    /\ UNCHANGED <<planVars, execVars, fanVars, nodeVars, other_run_records, riskVars, last_record>>
    /\ logger_handlers' = RemoveHandler(logger_handlers, SessionHandler)
    /\ ws_pc = "finally"
    /\ attached' = FALSE
    /\ ws_pc' = "closed"
    /\ UNCHANGED <<connected, log_queue, entry, done_event, graph_task, graph_result,
                   graph_error, sent, emitted, logged>>

\* The observer goes away.
Disconnect ==
    /\ UNCHANGED <<planVars, execVars, fanVars, nodeVars, other_run_records, riskVars, last_record, logger_handlers>>
    /\ connected
    /\ ws_pc # "closed"
    /\ connected' = FALSE
    /\ UNCHANGED <<ws_pc, attached, log_queue, entry, done_event, graph_task,
                   graph_result, graph_error, sent, emitted, logged>>

StreamNext ==
    \/ WsAttach
    \/ WsReceive
    \/ \E lg \in Loggers, line \in LogLines : LogRecord(lg, line)
    \/ RunGraphReturn
    \/ RunGraphRaise
    \/ WsPoll
    \/ WsSendLog
    \/ WsWake
    \/ WsAwaitTask
    \/ WsFlush
    \/ WsTerminal
    \/ WsFinally
    \/ Disconnect

\* A logger call made by a stage of another session's run. The loggers are the
\* process-wide logging.getLogger(name) objects, so the record goes to every
\* handler attached to the logger, this session's handler among them.
OtherRunLogRecord(lg, line) ==
    /\ UNCHANGED <<planVars, execVars, fanVars, nodeVars, riskVars, last_record,
                   logger_handlers>>
    /\ ws_pc # "closed"
    /\ logged < MaxEvents
    /\ logged' = logged + 1
    /\ other_run_records' = other_run_records \cup {logged + 1}
    /\ IF SessionHandler \in logger_handlers[lg]
       THEN /\ log_queue' = HandlerEmit(log_queue, line, logged + 1)
            /\ emitted' = emitted \o HandlerEmit(<<>>, line, logged + 1)
       ELSE UNCHANGED <<log_queue, emitted>>
    /\ UNCHANGED <<ws_pc, connected, attached, entry, done_event, graph_task,
                   graph_result, graph_error, sent>>

TwoRunsNext ==
    \/ StreamNext
    \/ \E lg \in Loggers, line \in LogLines : OtherRunLogRecord(lg, line)

\* ------------------------- fan-out: asyncio.run(gather(...)) inside a node
\* access_analyst_node and critic_node both run their per-venue coroutines with
\*     try: results = asyncio.run(_all())
\*     except RuntimeError: nest_asyncio.apply(); results = asyncio.run(_all())
\* and access_analyst_node adds `except Exception: results = []`.
FanNodes == {"access_analyst", "critic"}

\* What one per-venue coroutine does when it runs: it returns, or it raises a
\* RuntimeError, or it raises another exception.
Behaviours == {"ok", "raise_runtime", "raise_other"}

\* The batch sizes a node can fan out: one coroutine per candidate, and the
\* critic takes candidates[:3].
BatchSizes(node) ==
    IF node = "critic" THEN 1..Min(TopN, MaxTasks) ELSE 1..MaxTasks

Raisers == { i \in DOMAIN behaviour : behaviour[i] # "ok" }

ExcOf(b) == IF b = "raise_runtime" THEN "RuntimeError" ELSE "Exception"

InitFan ==
    /\ fan_node \in FanNodes
    /\ loop_running \in BOOLEAN
    /\ \E n \in BatchSizes(fan_node) : behaviour \in [1..n -> Behaviours]
    /\ task_state = [i \in DOMAIN behaviour |-> "created"]
    /\ attempts = [i \in DOMAIN behaviour |-> 0]
    /\ fan_pc = "try"
    /\ run_no = 1
    /\ gather_exc = None
    /\ results = <<>>

\* asyncio.run(...): refused at once when the calling thread already runs an
\* event loop (and nest_asyncio has not been applied); otherwise gather wraps
\* every coroutine in a task and each task runs to its first await.
AsyncioRun ==
    /\ UNCHANGED <<planVars, execVars, streamVars, nodeVars, riskVars>>
    /\ fan_pc = "try"
    /\ IF run_no = 1 /\ loop_running
       THEN /\ fan_pc' = "except_runtime"
            /\ UNCHANGED <<task_state, attempts>>
       ELSE /\ fan_pc' = "gathering"
            /\ task_state' = [i \in DOMAIN behaviour |-> "running"]
            /\ attempts' = [i \in DOMAIN behaviour |-> attempts[i] + 1]
    /\ UNCHANGED <<fan_node, loop_running, behaviour, run_no, gather_exc, results>>

\* One task of the batch finishes; gather (return_exceptions is not set) takes
\* the first exception as its own result.
TaskSettle(i) ==
    /\ UNCHANGED <<planVars, execVars, streamVars, nodeVars, riskVars>>
    /\ fan_pc = "gathering"
    /\ task_state[i] = "running"
    /\ IF behaviour[i] = "ok"
       THEN /\ task_state' = [task_state EXCEPT ![i] = "done"]
            /\ UNCHANGED gather_exc
       ELSE /\ task_state' = [task_state EXCEPT ![i] = "failed"]
            /\ gather_exc' = IF gather_exc = None THEN ExcOf(behaviour[i])
                             ELSE gather_exc
    /\ UNCHANGED <<fan_node, loop_running, behaviour, attempts, fan_pc, run_no,
                   results>>

\* Every task returned: gather returns the results in input order.
GatherReturn ==
    /\ UNCHANGED <<planVars, execVars, streamVars, nodeVars, riskVars>>
    /\ fan_pc = "gathering"
    /\ \A i \in DOMAIN behaviour : task_state[i] = "done"
    /\ results' = [i \in DOMAIN behaviour |-> [index |-> i, kind |-> "result"]]
    /\ fan_pc' = "collect"
    /\ UNCHANGED <<fan_node, loop_running, behaviour, task_state, attempts, run_no,
                   gather_exc>>

\* Where the exception of a failed run lands in the node.
ExceptionTarget(node, run, exc) ==
    IF run = 1
    THEN IF exc = "RuntimeError" THEN "except_runtime"
         ELSE IF node = "access_analyst" THEN "except_exception" ELSE "raised"
    ELSE "raised"

\* gather has failed: the awaiting coroutine ends with the exception and the
\* run ends. asyncio.run cancels the tasks still pending before it closes its
\* loop; the run installed by nest_asyncio leaves them pending.
GatherRaise ==
    /\ UNCHANGED <<planVars, execVars, streamVars, nodeVars, riskVars>>
    /\ fan_pc = "gathering"
    /\ gather_exc # None
    /\ task_state' = [i \in DOMAIN behaviour |->
                        IF task_state[i] = "running"
                        THEN (IF run_no = 1 THEN "cancelled" ELSE "abandoned")
                        ELSE task_state[i]]
    /\ fan_pc' = ExceptionTarget(fan_node, run_no, gather_exc)
    /\ UNCHANGED <<fan_node, loop_running, behaviour, attempts, run_no, gather_exc,
                   results>>

\* except RuntimeError: nest_asyncio.apply(), then the batch is run again.
ExceptRuntime ==
    /\ UNCHANGED <<planVars, execVars, streamVars, nodeVars, riskVars>>
    /\ fan_pc = "except_runtime"
    /\ run_no' = 2
    /\ gather_exc' = None
    /\ fan_pc' = "try"
    /\ UNCHANGED <<fan_node, loop_running, behaviour, task_state, attempts, results>>

\* access_analyst_node only: except Exception: results = []
ExceptException ==
    /\ UNCHANGED <<planVars, execVars, streamVars, nodeVars, riskVars>>
    /\ fan_pc = "except_exception"
    /\ results' = <<>>
    /\ fan_pc' = "collect"
    /\ UNCHANGED <<fan_node, loop_running, behaviour, task_state, attempts, run_no,
                   gather_exc>>

\* The node folds `results` into its update and returns.
NodeReturn ==
    /\ UNCHANGED <<planVars, execVars, streamVars, nodeVars, riskVars>>
    /\ fan_pc = "collect"
    /\ fan_pc' = "returned"
    /\ UNCHANGED <<fan_node, loop_running, behaviour, task_state, attempts, run_no,
                   gather_exc, results>>

FanNext ==
    \/ AsyncioRun
    \/ \E i \in DOMAIN behaviour : TaskSettle(i)
    \/ GatherReturn
    \/ GatherRaise
    \/ ExceptRuntime
    \/ ExceptException
    \/ NodeReturn

\* ------------------------------- stage functions called on a state: node(state)
\* The three stage functions of app/agents, each called once on a state mapping.
StageFunctions == {"access_analyst", "critic", "cost_analyst"}

\* create_plan / websocket_plan: initial_state, with the candidates a discovery
\* pass has put in it.
RequestState(cands) ==
    [raw_prompt |-> "prompt", parsed_intent |-> "parsed", candidate_venues |-> cands,
     vibe_scores |-> EmptyMap, cost_profiles |-> EmptyMap, risk_flags |-> EmptyMap,
     veto |-> FALSE, veto_reason |-> None, ranked_results |-> <<>>,
     member_locations |-> <<>>]

\* A state that holds candidate_venues only.
CandidatesOnlyState(cands) == [candidate_venues |-> cands]

\* A state without the candidate_venues key.
NoCandidatesKeyState == [parsed_intent |-> "parsed"]

NodeStates ==
    { RequestState(c) : c \in CandidateLists }
    \cup { CandidatesOnlyState(c) : c \in CandidateLists }
    \cup { NoCandidatesKeyState }

\* The venue records the critic reads ids from: with a venue_id, or with
\* neither venue_id nor name.
ReviewVenues == Venues \cup { [venue_id |-> NoKey, name |-> NoKey] }

\* Candidate lists longer than the critic's prefix, ids repeated or missing.
ReviewLists == UNION { [1..n -> ReviewVenues] : n \in 0..MaxReviewInput }

\* ------------------------- access_analyst.py: _members_reachable
\* Coordinates are whole degrees on a small grid; a point is <<lng, lat>>
\* (GeoJSON order). On whole numbers the comparison of _point_in_polygon is
\* exact, so it is written without the division.

\* dict.get(key, default) on a member record
GetOr(rec, key, default) == IF key \in DOMAIN rec THEN rec[key] ELSE default

\* lng < (xj - xi) * (lat - yi) / (yj - yi) + xi, for yj # yi
LeftOfEdge(lat, lng, pi, pj) ==
    LET xi == pi[1]
        yi == pi[2]
        xj == pj[1]
        yj == pj[2]
    IN IF yj > yi
       THEN (lng - xi) * (yj - yi) < (xj - xi) * (lat - yi)
       ELSE (lng - xi) * (yj - yi) > (xj - xi) * (lat - yi)

\* The loop of _point_in_polygon from index i on, j being the index before.
RECURSIVE PointInPolygonFrom(_, _, _, _, _, _)
PointInPolygonFrom(lat, lng, ring, i, j, inside) ==
    IF i > Len(ring) THEN inside
    ELSE LET crosses == /\ (ring[i][2] > lat) # (ring[j][2] > lat)
                        /\ LeftOfEdge(lat, lng, ring[i], ring[j])
         IN PointInPolygonFrom(lat, lng, ring, i + 1, i,
                               IF crosses THEN ~inside ELSE inside)

PointInPolygonSwapped(lat, lng, ring) ==
    PointInPolygonFrom(lng, lat, ring, 1, Len(ring), FALSE)

\* _point_in_polygon(lat, lng, polygon_coords)
PointInPolygon(lat, lng, ring) ==
    PointInPolygonFrom(lat, lng, ring, 1, Len(ring), FALSE)

\* Outer rings: a rectangle, a triangle and a concave hexagon, each closed by
\* repeating its first point; and a hole.
RectRing == << <<-1, -1>>, <<3, -1>>, <<3, 1>>, <<-1, 1>>, <<-1, -1>> >>
TriRing == << <<1, 1>>, <<5, 1>>, <<1, 5>>, <<1, 1>> >>
LRing ==
    << <<-1, -1>>, <<5, -1>>, <<5, 1>>, <<1, 1>>, <<1, 5>>, <<-1, 5>>, <<-1, -1>> >>
HoleRing == << <<1, 0>>, <<3, 0>>, <<2, 1>>, <<1, 0>> >>
OuterRings == {RectRing, TriRing, LRing}

\* A feature without a "geometry" key: features[0].get("geometry", {}) is {}.
NoGeometry == [type |-> NoKey, coordinates |-> <<>>]

\* Geometries of a feature of the isochrone: none, one without coordinates,
\* a Polygon (outer ring, or outer ring and a hole), a MultiPolygon (one
\* polygon, or two).
Geometries ==
    { NoGeometry, [type |-> "Polygon", coordinates |-> <<>>] }
    \cup { [type |-> "Polygon", coordinates |-> <<r>>] : r \in OuterRings }
    \cup { [type |-> "Polygon", coordinates |-> <<RectRing, HoleRing>>] }
    \cup { [type |-> "MultiPolygon", coordinates |-> << <<r>> >>] : r \in OuterRings }
    \cup { [type |-> "MultiPolygon", coordinates |-> << <<TriRing>>, <<RectRing>> >>] }

\* isochrone_geojson: None or an empty mapping (present = FALSE), or a mapping
\* with its features (none, one, or two of which the first counts).
NoIsochrone == [present |-> FALSE, features |-> <<>>]
Isochrones ==
    { NoIsochrone, [present |-> TRUE, features |-> <<>>] }
    \cup { [present |-> TRUE, features |-> <<[geometry |-> g]>>] : g \in Geometries }
    \cup { [present |-> TRUE,
            features |-> << [geometry |-> [type |-> "Polygon",
                                           coordinates |-> <<RectRing>>]],
                            [geometry |-> [type |-> "Polygon",
                                           coordinates |-> <<TriRing>>]] >>] }

\* Member records: with lat and lng, or without the two keys.
MemberPoints ==
    { [lat |-> 0, lng |-> 0], [lat |-> 0, lng |-> 2], [lat |-> 2, lng |-> 2],
      [lat |-> 1, lng |-> 0], [lat |-> 3, lng |-> 4], [lat |-> 1, lng |-> 3],
      [name |-> "member"] }

\* member_locations: a list of member records (None and [] are both <<>>:
\* the function tests `not member_locations` and returns total 0 for both).
MemberLists == UNION { [1..n -> MemberPoints] : n \in 0..MaxMembers }

\* ring = coords[0] if geometry.get("type") == "Polygon" else coords[0][0]
RingOf(geometry) ==
    IF geometry.type = "Polygon" THEN geometry.coordinates[1]
    ELSE geometry.coordinates[1][1]

\* _members_reachable(member_locations, isochrone_geojson): (reachable, total)
MembersReachable(members, iso) ==
    IF ~iso.present \/ members = <<>>
    THEN [reachable |-> 0, total |-> Len(members)]
    ELSE IF iso.features = <<>>
    THEN [reachable |-> 0, total |-> Len(members)]
    ELSE IF iso.features[1].geometry.coordinates = <<>>
    THEN [reachable |-> 0, total |-> Len(members)]
    ELSE LET ring == RingOf(iso.features[1].geometry)
             hit == { m \in DOMAIN members :
                        PointInPolygon(GetOr(members[m], "lat", 0),
                                       GetOr(members[m], "lng", 0), ring) }
         IN [reachable |-> Cardinality(hit), total |-> Len(members)]

\* The stage functions, the lookup service the access analyst calls and the
\* reachability count of its score.
NodeFunctions == StageFunctions \cup {"get_isochrone", "_members_reachable"}

\* The states a stage function is called on; get_isochrone is called on a
\* venue's coordinates, _members_reachable on member locations and an
\* isochrone.
NodeInputs(node) ==
    CASE node = "critic" -> NodeStates \cup { RequestState(c) : c \in ReviewLists }
      [] node = "get_isochrone" -> { [lat |-> 0, lng |-> 0] }
      [] node = "_members_reachable" ->
            { [member_locations |-> ms, isochrone_geojson |-> iso] :
                ms \in MemberLists, iso \in Isochrones }
      [] OTHER -> NodeStates

\* state.get("candidate_venues", [])
GetCandidates(st) ==
    IF "candidate_venues" \in DOMAIN st THEN st.candidate_venues ELSE <<>>

\* What get_isochrone does for one venue: a GeoJSON mapping, None, or an
\* exception that is no RuntimeError.
IsoOutcomes == {"geojson", "none", "raises"}

\* _compute_score: dist_score in hundredths for a venue within 5 km, half way
\* between 5 km and 30 km, and 30 km or further away.
DistScores == {100, 60, 20}

\* member_score = 0.5 when no member location is given
NeutralMemberScore == 50

\* iso_score = 0.8 if isochrone else 0.4
IsoScore(iso) == IF iso = "geojson" THEN 80 ELSE 40

ComputeScoreNeedsIsochrone(dist_score, iso) ==
    IF iso = "none" THEN 0
    ELSE (40 * dist_score + 30 * IsoScore(iso) + 30 * NeutralMemberScore) \div 100

\* round(0.4 * dist_score + 0.3 * iso_score + 0.3 * member_score, 2), in hundredths
ComputeScore(dist_score, iso) ==
    (40 * dist_score + 30 * IsoScore(iso) + 30 * NeutralMemberScore) \div 100

\* _analyze_venue_access: (venue_id, score_data, isochrone)
AnalyzeVenueAccess(venue, dist_score, iso) ==
    << VenueKey(venue), [score |-> ComputeScore(dist_score, iso)], iso >>

\* access_analyst_node past its empty check: the batch is run and the results
\* are folded into the two mappings (a later result for an id overwrites an
\* earlier one; an isochrone is stored only when there is one).
AccessAnalystFold(cands, env) ==
    LET n == Len(cands)
        failed == \E i \in 1..n : env.iso[i] = "raises"
        res == IF failed THEN <<>>
               ELSE [i \in 1..n |->
                       AnalyzeVenueAccess(cands[i], env.dist[i], env.iso[i])]
        keys == { res[i][1] : i \in 1..Len(res) }
        withIso == { res[i][1] : i \in { j \in 1..Len(res) : res[j][3] # "none" } }
        last(k) == SetMax({ i \in 1..Len(res) : res[i][1] = k })
        lastIso(k) == SetMax({ i \in 1..Len(res) : res[i][1] = k /\ res[i][3] # "none" })
    IN [update |-> [accessibility_scores |-> [k \in keys |-> res[last(k)][2]],
                    isochrones |-> [k \in withIso |-> res[lastIso(k)][3]]],
        calls |-> n]

AccessAnalystNodeScoresOnly(st, env) ==
    IF GetCandidates(st) = <<>>
    THEN [update |-> [accessibility_scores |-> EmptyMap], calls |-> 0]
    ELSE AccessAnalystFold(GetCandidates(st), env)

\* access_analyst_node: the mapping returned, and the lookups started.
AccessAnalystNode(st, env) ==
    IF GetCandidates(st) = <<>>
    THEN [update |-> [accessibility_scores |-> EmptyMap, isochrones |-> EmptyMap],
          calls |-> 0]
    ELSE AccessAnalystFold(GetCandidates(st), env)

\* critic_node: weather, events and the generator are called for each of the
\* top candidates.
CriticCalls(st) == 3 * Len(TopCandidates(GetCandidates(st)))

NoEnv == [iso |-> <<>>, dist |-> <<>>, gens |-> <<>>, lookup |-> None]

\* The outcomes of the external calls a node makes on a state.
NodeEnvs(node, st) ==
    LET n == Len(GetCandidates(st))
        t == Len(TopCandidates(GetCandidates(st)))
    IN CASE node = "access_analyst" ->
               { [iso |-> i, dist |-> d, gens |-> <<>>, lookup |-> None] :
                   i \in [1..n -> IsoOutcomes], d \in [1..n -> DistScores] }
         [] node = "critic" ->
               { [iso |-> <<>>, dist |-> <<>>, gens |-> g, lookup |-> None] :
                   g \in [1..t -> GeneratorOutputs] }
         [] node = "get_isochrone" ->
               { [iso |-> <<>>, dist |-> <<>>, gens |-> <<>>, lookup |-> o] :
                   o \in LookupOutcomes }
         [] OTHER -> { NoEnv }

InitNode ==
    /\ node_name \in NodeFunctions
    /\ node_state \in NodeInputs(node_name)
    /\ node_env \in NodeEnvs(node_name, node_state)
    /\ node_pc = "call"
    /\ node_result = EmptyMap
    /\ external_calls = 0

AccessAnalystCall ==
    /\ UNCHANGED <<planVars, execVars, streamVars, fanVars, riskVars>>
    /\ node_pc = "call"
    /\ node_name = "access_analyst"
    /\ node_result' = AccessAnalystNode(node_state, node_env).update
    /\ external_calls' = AccessAnalystNode(node_state, node_env).calls
    /\ node_pc' = "returned"
    /\ UNCHANGED <<node_name, node_state, node_env>>

CriticCall ==
    /\ UNCHANGED <<planVars, execVars, streamVars, fanVars, riskVars>>
    /\ node_pc = "call"
    /\ node_name = "critic"
    /\ external_calls' = CriticCalls(node_state)
    /\ IF CriticRaises(GetCandidates(node_state), node_env.gens)
       THEN /\ node_pc' = "raised"
            /\ node_result' = node_result
       ELSE /\ node_pc' = "returned"
            /\ node_result' = CriticUpdate(GetCandidates(node_state), node_env.gens)
    /\ UNCHANGED <<node_name, node_state, node_env>>

\* cost_analyst_node: `return state`
CostAnalystCall ==
    /\ UNCHANGED <<planVars, execVars, streamVars, fanVars, riskVars>>
    /\ node_pc = "call"
    /\ node_name = "cost_analyst"
    /\ node_result' = node_state
    /\ node_pc' = "returned"
    /\ UNCHANGED <<node_name, node_state, node_env, external_calls>>

\* get_isochrone(lat, lng)
GetIsochroneCall ==
    /\ UNCHANGED <<planVars, execVars, streamVars, fanVars, riskVars>>
    /\ node_pc = "call"
    /\ node_name = "get_isochrone"
    /\ external_calls' = GetIsochrone(node_env.lookup).calls
    /\ IF GetIsochrone(node_env.lookup).raises
       THEN /\ node_pc' = "raised"
            /\ node_result' = node_result
       ELSE /\ node_pc' = "returned"
            /\ node_result' = [value |-> GetIsochrone(node_env.lookup).value]
    /\ UNCHANGED <<node_name, node_state, node_env>>

\* _members_reachable(member_locations, isochrone_geojson)
MembersReachableCall ==
    /\ UNCHANGED <<planVars, execVars, streamVars, fanVars, riskVars>>
    /\ node_pc = "call"
    /\ node_name = "_members_reachable"
    /\ node_result' = MembersReachable(node_state.member_locations,
                                        node_state.isochrone_geojson)
    /\ node_pc' = "returned"
    /\ UNCHANGED <<node_name, node_state, node_env, external_calls>>

NodeNext ==
    \/ AccessAnalystCall
    \/ CriticCall
    \/ CostAnalystCall
    \/ GetIsochroneCall
    \/ MembersReachableCall

\* ------------------------------------- snowflake.py: log_risk_event
\* VENUE_RISK_EVENTS as the list of its rows; each caller is one thread or
\* process inside log_risk_event, between its SELECT and its INSERT.
Callers == 1..MaxCallers

\* venue_id as the callers pass it: an id, or None for a venue without one.
RiskVenueIds == {"v1", None}

RiskDescriptions == {"rain", "marathon"}

NoArgs == [venue_id |-> None, description |-> None]

\* SELECT 1 ... WHERE VENUE_ID = %s AND RISK_DESCRIPTION = %s LIMIT 1
\* (a comparison with NULL is never true)
CheckQuery(rows, vid, desc) ==
    \E i \in DOMAIN rows :
       /\ vid # None
       /\ rows[i].venue_id = vid
       /\ rows[i].description = desc

InitRisk ==
    /\ risk_events = <<>>
    /\ caller_pc = [c \in Callers |-> "idle"]
    /\ caller_args = [c \in Callers |-> NoArgs]
    /\ calls_made = 0

\* log_risk_event up to the end of its first cursor block: the SELECT,
\* and the early return when it finds a row.
RiskCheck(c, vid, desc) ==
    /\ UNCHANGED <<planVars, execVars, streamVars, fanVars, nodeVars>>
    /\ caller_pc[c] = "idle"
    /\ calls_made < MaxCalls
    /\ calls_made' = calls_made + 1
    /\ IF CheckQuery(risk_events, vid, desc)
       THEN UNCHANGED <<caller_pc, caller_args>>
       ELSE /\ caller_pc' = [caller_pc EXCEPT ![c] = "insert"]
            /\ caller_args' = [caller_args EXCEPT ![c] =
                                  [venue_id |-> vid, description |-> desc]]
    /\ UNCHANGED risk_events

\* The INSERT of the second cursor block.
RiskInsert(c) ==
    /\ UNCHANGED <<planVars, execVars, streamVars, fanVars, nodeVars>>
    /\ caller_pc[c] = "insert"
    /\ risk_events' = Append(risk_events,
                             [event_id |-> Len(risk_events) + 1,
                              venue_id |-> caller_args[c].venue_id,
                              description |-> caller_args[c].description])
    /\ caller_pc' = [caller_pc EXCEPT ![c] = "idle"]
    /\ caller_args' = [caller_args EXCEPT ![c] = NoArgs]
    /\ UNCHANGED calls_made

RiskNext ==
    \/ \E c \in Callers, vid \in RiskVenueIds, desc \in RiskDescriptions :
          RiskCheck(c, vid, desc)
    \/ \E c \in Callers : RiskInsert(c)

\* The parts of the state a specification does not exercise stay as built.
IdleExec ==
    /\ InitPlanState
    /\ parsed_intent = "empty"
    /\ InitExec

IdleStream == InitStream

IdleFan ==
    /\ fan_node = "none"
    /\ loop_running = FALSE
    /\ behaviour = <<>>
    /\ task_state = <<>>
    /\ attempts = <<>>
    /\ fan_pc = "idle"
    /\ run_no = 0
    /\ gather_exc = None
    /\ results = <<>>

IdleNode ==
    /\ node_name = "none"
    /\ node_state = EmptyMap
    /\ node_env = NoEnv
    /\ node_pc = "idle"
    /\ node_result = EmptyMap
    /\ external_calls = 0

\* No call of log_risk_event is made.
IdleRisk ==
    /\ risk_events = <<>>
    /\ caller_pc = <<>>
    /\ caller_args = <<>>
    /\ calls_made = 0

Init == InitPlanState /\ InitExec /\ IdleStream /\ IdleFan /\ IdleNode /\ IdleRisk
Next == ExecNext
Spec == Init /\ [][Next]_vars
FairSpec == Spec /\ WF_vars(Next)
SpecThreeCandidates == Init /\ [][ThreeCandidatesNext]_vars

InitStreaming == IdleExec /\ InitStream /\ IdleFan /\ IdleNode /\ IdleRisk
SpecStream == InitStreaming /\ [][StreamNext]_vars

\* The event loop keeps running the handler coroutine and the run_graph task.
AdapterStep ==
    \/ WsAttach
    \/ WsReceive
    \/ WsPoll
    \/ WsSendLog
    \/ WsWake
    \/ WsAwaitTask
    \/ WsFlush
    \/ WsTerminal
    \/ WsFinally

FairSpecStream ==
    /\ SpecStream
    /\ WF_vars(AdapterStep)
    /\ WF_vars(RunGraphReturn \/ RunGraphRaise)

\* A streaming session while another session's run is in progress.
SpecTwoRuns == InitStreaming /\ [][TwoRunsNext]_vars

InitFanOut == IdleExec /\ IdleStream /\ InitFan /\ IdleNode /\ IdleRisk
SpecFanOut == InitFanOut /\ [][FanNext]_vars

InitNodeCall == IdleExec /\ IdleStream /\ IdleFan /\ InitNode /\ IdleRisk
SpecNode == InitNodeCall /\ [][NodeNext]_vars

InitRiskLog == IdleExec /\ IdleStream /\ IdleFan /\ IdleNode /\ InitRisk
SpecRiskLog == InitRiskLog /\ [][RiskNext]_vars

\* ------------------------------------------------------------------ claims
ScoringStages == Scorers \cup {"REVIEW", "SYNTHESIS"}

AllScoresEmpty ==
    /\ vibe_scores = EmptyMap
    /\ accessibility_scores = EmptyMap
    /\ cost_profiles = EmptyMap

\* C1: whatever the critic decides, a run enters DISCOVERY at most
\* MaxRetries + 1 times, retry_count never decreases, and the run reaches DONE.
C1_VetoLoopTerminates ==
    /\ [](discovery_entries <= MaxRetries + 1)
    /\ [][retry_count' >= retry_count]_vars
    /\ <>(stage = "DONE")

\* A critic that vetoed on every pass, and the run over with a result.
C1_Witness ==
    /\ stage = "DONE"
    /\ exec_outcome = "returned"
    /\ veto
    /\ retry_count = MaxRetries
    /\ discovery_entries = MaxRetries + 1
    /\ ranked_results # <<>>

DegradedRun ==
    /\ stage = "DONE"
    /\ exec_outcome = "returned"
    /\ veto
    /\ retry_count >= MaxRetries
    /\ "SYNTHESIS" \in invoked

CarriesVetoReason(body) ==
    \/ "veto_reason" \in DOMAIN body
    \/ "data" \in DOMAIN body /\ "veto_reason" \in DOMAIN body.data

\* C3: when REVIEW ends with a veto and no retry is left, the executor goes on
\* to SYNTHESIS without an error outcome, and what the client receives carries
\* the veto_reason.
C3_ExhaustedVetoDegradedResult ==
    [][ /\ (stage = "REVIEW" /\ stage' # "REVIEW" /\ exec_outcome' # "raised"
              /\ veto' /\ retry_count >= MaxRetries)
           => stage' = "SYNTHESIS"
        /\ (DegradedRun' /\ response'.transport # "none")
           => CarriesVetoReason(response'.body)
      ]_vars

\* A run that ended after an exhausted veto has answered its client.
C3_Witness == DegradedRun /\ response.transport # "none"

NoScoringInPass ==
    /\ invoked \cap ScoringStages = {}
    /\ \A s \in Scorers : scorer_status[s] = "idle"

\* C4: when DISCOVERY finds no candidate the run ends at once with
\* ranked_results empty, and no scorer, REVIEW or SYNTHESIS runs in that pass.
C4_ZeroCandidatesShortCircuit ==
    /\ [][ (stage = "DISCOVERY" /\ discovery_entries' = discovery_entries + 1
              /\ candidate_venues' = <<>>)
           => /\ stage' = "DONE"
              /\ exec_outcome' = "returned"
              /\ ranked_results' = <<>>
              /\ NoScoringInPass'
         ]_vars
    /\ []( (stage = "DONE" /\ exec_outcome = "returned" /\ candidate_venues = <<>>)
           => /\ ranked_results = <<>>
              /\ NoScoringInPass
              /\ (response.transport = "http" => response.body.venues = <<>>)
              /\ (response.transport = "ws" => response.body.data.venues = <<>>) )

\* A retry pass whose discovery found nothing, answered to the client.
C4_Witness ==
    /\ stage = "DONE"
    /\ exec_outcome = "returned"
    /\ candidate_venues = <<>>
    /\ retry_count = 1
    /\ response.transport # "none"

\* C5: DISCOVERY runs only once INTENT has completed, a scorer starts only
\* once DISCOVERY has completed in its pass, and REVIEW starts only once all
\* three scorers have settled, in whatever order they ran.
C5_StageOrderAndBarrier ==
    [][ /\ ("DISCOVERY" \in invoked' \ invoked)
           => (parsed_intent = "parsed" /\ stage = "DISCOVERY")
        /\ \A s \in Scorers :
              (s \in invoked' \ invoked)
              => /\ "DISCOVERY" \in invoked
                 /\ candidate_venues # <<>>
                 /\ "REVIEW" \notin invoked
        /\ ("REVIEW" \in invoked' \ invoked)
           => /\ Scorers \subseteq invoked
              /\ \A s \in Scorers : scorer_status[s] = "settled"
      ]_vars

\* REVIEW has run in a second pass, after the three scorers ran again.
C5_Witness ==
    /\ "REVIEW" \in invoked
    /\ retry_count = 1
    /\ \A s \in Scorers : scorer_status[s] = "settled"

TerminalIdx == { i \in 1..Len(sent) : sent[i].type \in {"result", "error"} }

\* C6: an observer that stays connected gets exactly one terminal message
\* (result or error), and it is the last message: no log message follows it.
C6_OneTerminalMessageLast ==
    /\ Cardinality(TerminalIdx) <= 1
    /\ \A i \in TerminalIdx : i = Len(sent)
    /\ (ws_pc = "closed" /\ connected /\ graph_task # "none")
       => Cardinality(TerminalIdx) = 1

\* A session that streamed two log messages and then the error message.
C6_Witness ==
    /\ ws_pc = "closed"
    /\ connected
    /\ Len(sent) = 3
    /\ sent[3].type = "error"

IsLog(m) == m.type = "log"

DeliveredEntries ==
    LET logs == SelectSeq(sent, IsLog)
    IN [i \in 1..Len(logs) |-> [node |-> logs[i].node, message |-> logs[i].message]]

InHand == IF entry.node = None THEN <<>> ELSE <<entry>>

\* C7: while the observer stays connected, the entries delivered, the entry
\* being sent and the entries still queued are exactly the entries put on the
\* queue, in the order they were put; when the terminal message goes out the
\* queue is empty and every entry has been delivered once.
C7_EveryEventDeliveredOnceInOrder ==
    connected =>
       /\ DeliveredEntries \o InHand \o log_queue = emitted
       /\ TerminalIdx # {} =>
             /\ log_queue = <<>>
             /\ InHand = <<>>
             /\ DeliveredEntries = emitted

\* Two entries were queued during the run and the result message went out.
C7_Witness ==
    /\ connected
    /\ Len(emitted) >= 2
    /\ TerminalIdx # {}
    /\ sent[Len(sent)].type = "result"

NodeEnded == fan_pc \in {"returned", "raised"}

\* C8: in a batch where exactly one sub-task raises, the node gets a result
\* sequence as long as the batch, a failure marker at the raising index and
\* the result of every other sub-task at its index.
C8_OneFailureKeepsSiblingResults ==
    (NodeEnded /\ Cardinality(Raisers) = 1)
    => /\ fan_pc = "returned"
       /\ Len(results) = Len(behaviour)
       /\ \A i \in DOMAIN behaviour :
             results[i].kind = IF i \in Raisers THEN "failure" ELSE "result"

\* A batch of three with one raising sub-task has come back to the node.
C8_Witness ==
    /\ fan_pc = "returned"
    /\ Len(behaviour) = 3
    /\ Cardinality(Raisers) = 1

\* C9: no sub-task of a batch is started a second time, also when a sub-task
\* raises a RuntimeError.
C9_EachSubTaskAttemptedOnce ==
    \A i \in DOMAIN attempts : attempts[i] <= 1

\* A sub-task raised RuntimeError and the node is past its first run.
C9_Witness ==
    /\ ~loop_running
    /\ run_no = 2
    /\ \E i \in DOMAIN behaviour : behaviour[i] = "raise_runtime"

\* C10: a fan-out call comes back only when every sub-task has returned or
\* failed; a failure neither ends the call early nor cancels or abandons a
\* sub-task that is still running.
C10_CallWaitsForAllSubTasks ==
    /\ \A i \in DOMAIN task_state : task_state[i] \notin {"cancelled", "abandoned"}
    /\ NodeEnded => \A i \in DOMAIN task_state : task_state[i] \in {"done", "failed"}

\* One sub-task failed while a sibling was still running.
C10_Witness ==
    /\ fan_pc = "gathering"
    /\ gather_exc # None
    /\ \E i \in DOMAIN task_state : task_state[i] = "running"

\* The sub-tasks of the node's batch that are started and not yet settled.
InFlight == { i \in DOMAIN task_state : task_state[i] = "running" }

\* C11: at every moment of a fan-out at most ConcurrencyLimit sub-tasks are in
\* flight, whatever the number of candidates.
C11_InFlightWithinLimit == Cardinality(InFlight) <= ConcurrencyLimit

\* A batch larger than the limit has been started.
C11_Witness ==
    /\ fan_pc = "gathering"
    /\ Len(behaviour) > ConcurrencyLimit
    /\ Cardinality(InFlight) = Len(behaviour)

\* C12: when the session is over and the observer stayed connected, the last
\* message is an error message exactly when ainvoke raised, and otherwise the
\* result message with the run's ranked_results; a raising run still gets its
\* terminal message.
C12_TerminalMessageMatchesOutcome ==
    (ws_pc = "closed" /\ connected /\ graph_task = "finished")
    => /\ TerminalIdx # {}
       /\ (sent[Len(sent)].type = "error") <=> (exec_outcome = "raised")
       /\ (exec_outcome = "returned")
          => /\ sent[Len(sent)].type = "result"
             /\ sent[Len(sent)].data.venues = ranked_results

\* ainvoke raised and the observer got the error message.
C12_Witness ==
    /\ ws_pc = "closed"
    /\ connected
    /\ exec_outcome = "raised"
    /\ TerminalIdx # {}
    /\ sent[Len(sent)].type = "error"

\* C13: once the observer is gone nothing more is forwarded to it, and the
\* run_graph task is not cancelled: a run in progress at the disconnect still
\* comes to its end.
C13_DisconnectLeavesExecutorRunning ==
    /\ [][~connected => sent' = sent]_vars
    /\ [](graph_task # "cancelled")
    /\ (~connected /\ graph_task = "running") ~> (graph_task = "finished" /\ done_event)

\* The observer left after a log message, the handler is detached, and the run
\* has ended with its terminal state.
C13_Witness ==
    /\ ~connected
    /\ ws_pc = "closed"
    /\ Len(sent) >= 1
    /\ TerminalIdx = {}
    /\ graph_task = "finished"
    /\ exec_outcome = "returned"

\* C14: the run_graph task sets done_event on every way out; once it is set
\* the session comes to its end, with the terminal message sent to an observer
\* that is still there; and a poll that finds the queue empty while the run is
\* in progress goes to sleep before it polls again.
C14_StreamingRunNeverHangs ==
    /\ [][(graph_task = "running" /\ graph_task' # "running") => done_event']_vars
    /\ done_event ~> (ws_pc = "closed" /\ (connected => TerminalIdx # {}))
    /\ [][(ws_pc = "poll" /\ ~done_event /\ log_queue = <<>> /\ ws_pc' # "poll")
             => ws_pc' = "sleep"]_vars

\* The adapter sleeps on an empty queue; meanwhile the run has logged a record
\* and ended.
C14_Witness ==
    /\ ws_pc = "sleep"
    /\ done_event
    /\ log_queue # <<>>

\* C15: every log message delivered to this session's observer comes from a
\* record logged by this session's own run, never from a record logged by the
\* run of another session.
C15_OnlyOwnRunEventsDelivered ==
    \A i \in DOMAIN sent :
       IsLog(sent[i]) => sent[i].message[3] \notin other_run_records

\* Both runs have logged while this session's run is in progress, and two log
\* messages have gone out.
C15_Witness ==
    /\ graph_task = "running"
    /\ other_run_records # {}
    /\ logged > Cardinality(other_run_records)
    /\ Len(sent) >= 2

\* The entries of the sink in drain order: delivered, in hand, still queued.
DrainOrder == DeliveredEntries \o InHand \o log_queue

\* C16: an emit never waits and never drops: each record that passes the
\* handler's filter is appended to the queue at once, however long the queue
\* is; no entry of the sink is altered; and the entries of one node are drained
\* in the order they were emitted, however the emits of other nodes and the
\* drains interleave.
C16_EmitNeverBlocksKeepsOrder ==
    /\ [][Len(emitted') = Len(emitted) + 1
             => log_queue' = Append(log_queue, emitted'[Len(emitted')])]_vars
    /\ [](\A i \in DOMAIN DrainOrder : \E k \in DOMAIN emitted : DrainOrder[i] = emitted[k])
    /\ [](\A i, j \in DOMAIN DrainOrder :
             (i < j /\ DrainOrder[i].node = DrainOrder[j].node)
             => DrainOrder[i].message[3] < DrainOrder[j].message[3])

\* The consumer has drained nothing yet and every record of the run sits in
\* the queue, from two different nodes.
C16_Witness ==
    /\ Len(log_queue) = MaxEvents
    /\ sent = <<>>
    /\ \E i, j \in DOMAIN log_queue : log_queue[i].node # log_queue[j].node

\* The keys a stage may return: a scorer its own namespace, the critic
\* risk_flags, veto and veto_reason.
OwnedKeys(node) ==
    CASE node = "access_analyst" -> {"accessibility_scores", "isochrones"}
      [] node = "critic" -> {"risk_flags", "veto", "veto_reason"}
      [] OTHER -> {"cost_profiles"}

\* C17: a stage function leaves the state it was given as it was, and the
\* mapping it returns holds only keys the stage owns, never the whole state or
\* a key of another stage.
C17_StageReturnsOnlyOwnKeys ==
    /\ [][node_state' = node_state]_vars
    /\ []((node_name \in StageFunctions /\ node_pc = "returned")
             => DOMAIN node_result \subseteq OwnedKeys(node_name))

\* The cost analyst has returned on a request state that holds candidates.
C17_Witness ==
    /\ node_name = "cost_analyst"
    /\ node_pc = "returned"
    /\ "raw_prompt" \in DOMAIN node_state
    /\ GetCandidates(node_state) # <<>>

ScorerMappings == <<vibe_scores, accessibility_scores, cost_profiles>>

\* C19: once the three scorers of a pass have settled, every key of every
\* scorer's mapping is the id of a candidate venue (the same id in each
\* mapping), and no mapping holds a null for a venue: a venue a scorer failed
\* for is absent from that scorer's mapping.
C19_ScorerKeysAreCandidateIds ==
    (\A s \in Scorers : scorer_status[s] = "settled")
    => \A n \in DOMAIN ScorerMappings :
          /\ DOMAIN ScorerMappings[n] \subseteq CandidateKeys(candidate_venues)
          /\ \A k \in DOMAIN ScorerMappings[n] : ScorerMappings[n][k] # None

\* REVIEW is reached with both candidates scored by the vibe matcher while the
\* access analyst's batch failed and left its mapping empty.
C19_Witness ==
    /\ stage = "REVIEW"
    /\ Cardinality(DOMAIN vibe_scores) = 2
    /\ accessibility_scores = EmptyMap

\* The access analyst has ended on a batch in which no lookup raised.
AccessBatchWithoutRaise ==
    /\ node_name = "access_analyst"
    /\ node_pc \in {"returned", "raised"}
    /\ GetCandidates(node_state) # <<>>
    /\ \A i \in DOMAIN node_env.iso : node_env.iso[i] # "raises"

C28_NoDuplicateRiskRows ==
    \A i, j \in DOMAIN risk_events :
       (i # j) => \/ risk_events[i].venue_id # risk_events[j].venue_id
                  \/ risk_events[i].description # risk_events[j].description

\* Two callers have run the SELECT with the same venue and description and
\* both are about to insert.
C28_Witness ==
    /\ \A c \in Callers : caller_pc[c] = "insert"
    /\ \A c, d \in Callers : caller_args[c] = caller_args[d]
    /\ caller_args[1].venue_id = "v1"

\* The first three candidates of the state the critic was called on, and
\* whether the call has ended.
ReviewedPrefix == SubSeq(GetCandidates(node_state), 1,
                         Min(3, Len(GetCandidates(node_state))))
CriticEnded == node_name = "critic" /\ node_pc # "call" /\ ReviewedPrefix # <<>>
MalformedOutputs == {"exception", "none", "not_json", "json_list"}

\* C21: whatever the generator gives for a reviewed venue, critic_node returns
\* (it never raises), and a venue whose generator output is malformed gets the
\* default record: no risks in risk_flags, no fast-fail, no veto.
C21_MalformedOutputFallsBack ==
    CriticEnded =>
       /\ node_pc = "returned"
       /\ (\A i \in DOMAIN ReviewedPrefix : node_env.gens[i] \in MalformedOutputs)
             => /\ \A k \in DOMAIN node_result.risk_flags :
                      node_result.risk_flags[k] = <<>>
                /\ ~node_result.veto

\* The generator gave valid JSON that is no object for a reviewed venue and the
\* call of critic_node ended with an exception.
C21_Witness ==
    /\ CriticEnded
    /\ node_pc = "raised"
    /\ \E i \in DOMAIN ReviewedPrefix : node_env.gens[i] = "json_list"
    /\ \A i \in DOMAIN ReviewedPrefix : node_env.gens[i] \in {"json_list", "clean"}

\* C22: when the analysis of any reviewed candidate reports fast_fail, the
\* critic's update has veto = TRUE.
C22_AnyFastFailVetoes ==
    (CriticEnded /\ node_pc = "returned")
       => ((\E i \in DOMAIN ReviewedPrefix : node_env.gens[i] = "fast_fail")
              => node_result.veto)

\* Only the second reviewed candidate, with an id of its own, reported
\* fast_fail, and the critic returned without a veto.
C22_Witness ==
    /\ CriticEnded
    /\ node_pc = "returned"
    /\ Len(ReviewedPrefix) >= 2
    /\ node_env.gens[1] = "clean"
    /\ node_env.gens[2] = "fast_fail"
    /\ VenueKey(ReviewedPrefix[1]) # VenueKey(ReviewedPrefix[2])
    /\ ReviewedPrefix[1].venue_id # NoKey
    /\ ~node_result.veto

\* C23: critic_node starts analyses (weather, events, generator: three calls
\* each) for the first three candidates only, and every key of risk_flags is
\* the id of one of the first three candidates, however long the list is.
C23_ReviewBoundedToPrefix ==
    (node_name = "critic" /\ node_pc # "call")
       => /\ external_calls = 3 * Len(ReviewedPrefix)
          /\ external_calls <= 9
          /\ node_pc = "returned"
                => DOMAIN node_result.risk_flags
                      = { VenueKey(ReviewedPrefix[i]) : i \in DOMAIN ReviewedPrefix }

\* The critic returned on a list of more than three candidates whose fourth
\* candidate has an id none of the first three has.
C23_Witness ==
    /\ CriticEnded
    /\ node_pc = "returned"
    /\ Len(GetCandidates(node_state)) > 3
    /\ VenueKey(GetCandidates(node_state)[4])
          \notin { VenueKey(ReviewedPrefix[i]) : i \in DOMAIN ReviewedPrefix }
    /\ external_calls = 9

\* C27: on a non-empty list, veto and fast_fail are TRUE exactly when the
\* analysis of the first candidate reports fast_fail, also for candidates
\* without venue_id or name and for candidates sharing an id; without a veto,
\* veto_reason is None.
C27_VetoIffFirstFastFails ==
    (CriticEnded /\ node_pc = "returned")
       => /\ node_result.veto = (node_env.gens[1] = "fast_fail")
          /\ node_result.fast_fail = node_result.veto
          /\ ~node_result.veto => node_result.veto_reason = None

\* The first candidate has neither venue_id nor name, its analysis reported
\* fast_fail, and the critic returned without a veto.
C27_Witness ==
    /\ CriticEnded
    /\ node_pc = "returned"
    /\ ReviewedPrefix[1].venue_id = NoKey
    /\ ReviewedPrefix[1].name = NoKey
    /\ node_env.gens[1] = "fast_fail"
    /\ ~node_result.veto

\* The second candidate shares the first one's id, only its analysis reported
\* fast_fail, and the critic returned a veto.
C27_SharedIdVeto ==
    /\ CriticEnded
    /\ node_pc = "returned"
    /\ Len(ReviewedPrefix) >= 2
    /\ ReviewedPrefix[1] = ReviewedPrefix[2]
    /\ node_env.gens[1] = "clean"
    /\ node_env.gens[2] = "fast_fail"
    /\ node_result.veto

\* C26: get_isochrone never raises: whatever the lookup meets, it returns a
\* GeoJSON FeatureCollection or None, and None whenever the lookup failed (no
\* token, error status, transport error, a body that is no JSON, a JSON body
\* of unexpected shape).
C26_IsochroneNeverRaises ==
    (node_name = "get_isochrone" /\ node_pc # "call")
       => /\ node_pc = "returned"
          /\ node_result.value \in {"FeatureCollection", None}
          /\ node_env.lookup # "feature_collection" => node_result.value = None

\* The lookup was answered with a body that is no JSON and get_isochrone ended
\* with an exception, after sending its request.
C26_Witness ==
    /\ node_name = "get_isochrone"
    /\ node_pc = "raised"
    /\ node_env.lookup = "not_json"
    /\ external_calls = 1

\* The node a logger belongs to.
NodeOfLogger(lg) ==
    CASE lg = "app.agents.critic" -> "critic"
      [] lg = "app.agents.access_analyst" -> "access_analyst"
      [] OTHER -> "system"

\* C29: while a session's handler is attached, a progress event logged by a
\* stage (the access analyst included) is put on the session's queue, with the
\* stage that logged it as its node.
C29_StageEventEntersSinkAttributed ==
    [][(/\ last_record' # last_record
        /\ attached
        /\ ~Skipped(last_record'.line))
       => /\ Len(emitted') = Len(emitted) + 1
          /\ emitted'[Len(emitted')].message[3] = last_record'.seq
          /\ emitted'[Len(emitted')].node = NodeOfLogger(last_record'.logger)]_vars

\* The access analyst logged a progress line while the handler was attached
\* and nothing was put on the queue for it.
C29_Witness ==
    /\ attached
    /\ last_record.logger = "app.agents.access_analyst"
    /\ last_record.line = [tag |-> NoTag, body |-> "text"]
    /\ last_record.seq = logged
    /\ \A i \in DOMAIN emitted : emitted[i].message[3] # last_record.seq

\* The critic logged an untagged progress line while the handler was attached
\* and the queued entry names "system" as its node.
C29_CriticLineAttributedToSystem ==
    /\ attached
    /\ last_record.logger = "app.agents.critic"
    /\ last_record.line = [tag |-> NoTag, body |-> "text"]
    /\ emitted # <<>>
    /\ emitted[Len(emitted)].message[3] = last_record.seq
    /\ emitted[Len(emitted)].node = "system"

\* C30: every entry emit puts on the queue has exactly the keys node and
\* message; node is the mapped name for a known tag, the lower-cased tag for an
\* unknown one and "system" without a tag; an empty message, a separator line
\* or a record that cannot be formatted is never queued; emit never raises to
\* the logging caller.
C30_EmitEntriesWellFormed ==
    /\ \A i \in DOMAIN emitted :
          /\ DOMAIN emitted[i] = {"node", "message"}
          /\ emitted[i].node =
                CASE emitted[i].message[1] = "CRITIC" -> "critic"
                  [] emitted[i].message[1] = "ACCESS" -> "access"
                  [] OTHER -> "system"
          /\ emitted[i].message[1] = NoTag => emitted[i].message[2] = "text"
    /\ ~last_record.raised

\* Entries for a known tag, an unknown tag and an untagged line have been
\* queued.
C30_Witness ==
    /\ Len(emitted) = 3
    /\ { emitted[i].node : i \in DOMAIN emitted } = {"critic", "access", "system"}

\* A record that cannot be formatted was handled by the attached handler:
\* nothing was queued for it and the logging call returned.
C30_FormatErrorDropped ==
    /\ attached
    /\ last_record.logger = "app.agents.critic"
    /\ last_record.line.body = "bad_args"
    /\ last_record.seq = logged
    /\ \A i \in DOMAIN emitted : emitted[i].message[3] # last_record.seq
    /\ ~last_record.raised

\* A run that ended through SYNTHESIS.
Synthesised == stage = "DONE" /\ exec_outcome = "returned" /\ "SYNTHESIS" \in invoked

ScorerMappingOf ==
    [vibe_matcher |-> vibe_scores, access_analyst |-> accessibility_scores,
     cost_analyst |-> cost_profiles]

\* C24: SYNTHESIS can always complete, whichever scorer mappings lack whichever
\* venues; every candidate has its entry in ranked_results, and a scorer whose
\* mapping lacks the venue's id contributes its neutral value, not zero.
C24_AbsentScoreIsNeutral ==
    /\ stage = "SYNTHESIS" => ENABLED Synthesis
    /\ Synthesised =>
          /\ Len(ranked_results) = Len(candidate_venues)
          /\ \A i \in DOMAIN candidate_venues :
                LET k == VenueKey(candidate_venues[i]) IN
                /\ ranked_results[i].venue_id = k
                /\ \A sc \in Scorers :
                      ranked_results[i].contributions[sc] =
                         IF k \in DOMAIN ScorerMappingOf[sc]
                         THEN ScorerMappingOf[sc][k] ELSE "neutral"

\* A run ended through SYNTHESIS with two candidates, the access analyst's
\* mapping empty and the vibe matcher's mapping holding one of the two ids.
C24_Witness ==
    /\ Synthesised
    /\ Len(candidate_venues) >= 2
    /\ accessibility_scores = EmptyMap
    /\ DOMAIN vibe_scores = {"v1"}
    /\ \E i \in DOMAIN ranked_results :
          /\ ranked_results[i].venue_id = "v2"
          /\ ranked_results[i].contributions.vibe_matcher = "neutral"
          /\ ranked_results[i].contributions.access_analyst = "neutral"

\* Every scorer has settled without raising, the vibe matcher and the access
\* analyst with a record for each of the three candidates, the critic did not
\* veto, and the run ended through SYNTHESIS.
ScenarioB ==
    /\ Synthesised
    /\ candidate_venues = ThreeCandidates
    /\ \A sc \in Scorers : scorer_status[sc] = "settled"
    /\ DOMAIN vibe_scores = CandidateKeys(candidate_venues)
    /\ DOMAIN accessibility_scores = CandidateKeys(candidate_venues)
    /\ ~veto

\* C25: with three candidates, every scorer succeeding for all three and no
\* veto, ranked_results has exactly three entries, one per candidate, each
\* with a contribution of each of the three scorers, and retry_count is as it
\* was at the start.
C25_ThreeCandidatesAllContribute ==
    ScenarioB =>
       /\ Len(ranked_results) = 3
       /\ \A i \in 1..3 : ranked_results[i].venue_id = VenueKey(candidate_venues[i])
       /\ retry_count = 0
       /\ \A i \in DOMAIN ranked_results : \A sc \in Scorers :
             ranked_results[i].contributions[sc] # "neutral"

\* The scenario has run to its end: three ranked entries, no retry, and the
\* cost analyst's mapping still empty.
C25_Witness ==
    /\ ScenarioB
    /\ Len(ranked_results) = 3
    /\ retry_count = 0
    /\ cost_profiles = EmptyMap
    /\ \A i \in 1..3 :
          /\ ranked_results[i].contributions.vibe_matcher # "neutral"
          /\ ranked_results[i].contributions.access_analyst # "neutral"
          /\ ranked_results[i].contributions.cost_analyst = "neutral"

\* A member's point, (0, 0) for a record without coordinates.
MemberLng(m) == IF "lng" \in DOMAIN m THEN m.lng ELSE 0
MemberLat(m) == IF "lat" \in DOMAIN m THEN m.lat ELSE 0

\* The interior of the three outer rings, without and with the boundary.
StrictlyInside(x, y, ring) ==
    CASE ring = RectRing -> -1 < x /\ x < 3 /\ -1 < y /\ y < 1
      [] ring = TriRing -> x > 1 /\ y > 1 /\ x + y < 6
      [] OTHER -> \/ -1 < x /\ x < 5 /\ -1 < y /\ y < 1
                  \/ -1 < x /\ x < 1 /\ -1 < y /\ y < 5

InsideOrOnRing(x, y, ring) ==
    CASE ring = RectRing -> -1 <= x /\ x <= 3 /\ -1 <= y /\ y <= 1
      [] ring = TriRing -> x >= 1 /\ y >= 1 /\ x + y <= 6
      [] OTHER -> \/ -1 <= x /\ x <= 5 /\ -1 <= y /\ y <= 1
                  \/ -1 <= x /\ x <= 1 /\ -1 <= y /\ y <= 5

ReachabilityCalled == node_name = "_members_reachable" /\ node_pc # "call"
GivenMembers == node_state.member_locations
GivenIsochrone == node_state.isochrone_geojson
HasOuterRing ==
    /\ GivenIsochrone.present
    /\ GivenIsochrone.features # <<>>
    /\ GivenIsochrone.features[1].geometry.coordinates # <<>>
FirstOuterRing ==
    LET g == GivenIsochrone.features[1].geometry
    IN IF g.type = "Polygon" THEN g.coordinates[1] ELSE g.coordinates[1][1]

\* C31: _members_reachable returns (reachable, total) with total the number of
\* member locations given and 0 <= reachable <= total; reachable is 0 without
\* an isochrone or without features, and otherwise counts the members inside
\* the outer ring of the first polygon: every member strictly inside is
\* counted and no member strictly outside is.
C31_ReachableCountsMembersInRing ==
    ReachabilityCalled =>
       /\ node_pc = "returned"
       /\ node_result.total = Len(GivenMembers)
       /\ 0 <= node_result.reachable
       /\ node_result.reachable <= node_result.total
       /\ (~GivenIsochrone.present \/ GivenIsochrone.features = <<>>)
             => node_result.reachable = 0
       /\ HasOuterRing =>
             /\ node_result.reachable >=
                   Cardinality({ m \in DOMAIN GivenMembers :
                      StrictlyInside(MemberLng(GivenMembers[m]),
                                     MemberLat(GivenMembers[m]), FirstOuterRing) })
             /\ node_result.reachable <=
                   Cardinality({ m \in DOMAIN GivenMembers :
                      InsideOrOnRing(MemberLng(GivenMembers[m]),
                                     MemberLat(GivenMembers[m]), FirstOuterRing) })

\* The count has been taken for two members and a MultiPolygon whose first
\* polygon is the triangle: the member inside the triangle is counted, the
\* member inside the second polygon only is not.
C31_Witness ==
    /\ ReachabilityCalled
    /\ node_pc = "returned"
    /\ GivenIsochrone.features
          = << [geometry |-> [type |-> "MultiPolygon",
                              coordinates |-> << <<TriRing>>, <<RectRing>> >>]] >>
    /\ GivenMembers = << [lat |-> 2, lng |-> 2], [lat |-> 0, lng |-> 0] >>
    /\ node_result = [reachable |-> 1, total |-> 2]

\* The session's handler function has run to its end.
SessionEnded == ws_pc = "closed"

\* C32: once a streaming session has ended, by whichever path, its handler is
\* on none of the loggers, every logger has the handlers it had before the
\* session, and nothing more is put on the session's queue.
C32_HandlerRemovedOnEveryExit ==
    /\ [](SessionEnded =>
             /\ logger_handlers = HandlersBefore
             /\ \A lg \in AllLoggers : SessionHandler \notin logger_handlers[lg])
    /\ [][SessionEnded => (emitted' = emitted /\ log_queue' = log_queue)]_vars

\* The observer went away, the session ended while the graph was still
\* running, and a target logger has logged a progress line since: it was not
\* put on the queue.
C32_Witness ==
    /\ SessionEnded
    /\ ~connected
    /\ graph_task = "running"
    /\ logger_handlers = HandlersBefore
    /\ last_record.logger \in TargetLoggers
    /\ ~Skipped(last_record.line)
    /\ last_record.seq = logged
    /\ \A i \in DOMAIN emitted : emitted[i].message[3] # last_record.seq

\* The session ended on an exception while receiving, before any run started.
C32_EndedWhileReceiving ==
    /\ SessionEnded
    /\ connected
    /\ graph_task = "none"
    /\ sent = <<>>
    /\ logger_handlers = HandlersBefore

\* The session ended after its terminal message was sent.
C32_EndedAfterTerminal ==
    /\ SessionEnded
    /\ sent # <<>>
    /\ sent[Len(sent)].type \in {"result", "error"}
    /\ logger_handlers = HandlersBefore
====
